---- MODULE Spec2Model ----
(***************************************************************************)
(* robusta_krr/utils/service_discovery.py: ServiceDiscovery.               *)
(*                                                                         *)
(* find_url resolves an ordered list of label selectors to the address of  *)
(* a monitoring backend: a class-level TTLCache(maxsize=1, ttl=900) is     *)
(* consulted first, then every selector is tried in order with a service   *)
(* lookup followed by an ingress lookup.                                   *)
(***************************************************************************)
EXTENDS Integers, Sequences, FiniteSets, TLC

(***************************************************************************)
(* Program constants.                                                      *)
(***************************************************************************)
SERVICE_CACHE_TTL_SEC == 900

\* a cache of two slots
maxsize_two == 1 + 1

\* TTLCache(maxsize=1, ...)
maxsize == 1

(***************************************************************************)
(* Bounds of the model.                                                    *)
(***************************************************************************)
\* the longest selector list passed to find_url
MaxSelectors == 2

\* seconds by which the monotonic clock advances in one step
TickSec == 450

\* the clock stops after this many steps
MaxTicks == 2

\* the longest list a list call answers when a lookup is checked on its own
MaxItems == 2

(***************************************************************************)
(* Optional[str] values and raised exceptions.                             *)
(***************************************************************************)
None == [kind |-> "none", v |-> ""]

Str(s) == [kind |-> "str", v |-> s]

Raise(e) == [kind |-> "raise", v |-> e]

\* Python truthiness of an Optional[str]: None and "" are falsy
Truthy(x) == x.kind = "str" /\ x.v # ""

(***************************************************************************)
(* Inputs: label selectors, API handles, cluster resources.                *)
(***************************************************************************)
SelA == "app=prom"

\* a selector that itself contains the ',' separator
SelB == "app=prom,app=prom"

LabelSelectors == {SelA, SelB}

RECURSIVE SeqsUpTo(_, _)
SeqsUpTo(S, n) ==
    IF n = 0 THEN {<<>>}
    ELSE LET shorter == SeqsUpTo(S, n - 1)
         IN shorter \cup {Append(q, x) : q \in {p \in shorter : Len(p) = n - 1}, x \in S}

SelectorLists == SeqsUpTo(LabelSelectors, MaxSelectors)

\* api_client: Optional[ApiClient]; host is api_client.configuration.host
NoClient == [present |-> FALSE, host |-> ""]

ApiClient(h) == [present |-> TRUE, host |-> h]

Hosts == {"https://k8s-a", "https://k8s-b"}

ApiClients == {NoClient} \cup {ApiClient(h) : h \in Hosts}

\* V1Service: metadata.name, metadata.namespace, spec.ports[*].port
Prom == [name |-> "prom", namespace |-> "monitoring", ports |-> <<9090>>]

Thanos == [name |-> "thanos", namespace |-> "obs", ports |-> <<10902, 9090>>]

\* a matched service that declares no ports
Headless == [name |-> "prom", namespace |-> "monitoring", ports |-> <<>>]

\* V1Ingress: spec.rules[*].host
PromIngress == [rules |-> <<"prom.example.com">>]

TwoRules == [rules |-> <<"thanos.example.com", "prom.example.com">>]

\* a matched ingress with no routing rules
NoRules == [rules |-> <<>>]

\* a list call of the orchestration API either raises or returns items
ApiOk(items) == [err |-> FALSE, items |-> items]

ApiError == [err |-> TRUE, items |-> <<>>]

(***************************************************************************)
(* f-strings of the address forms.                                         *)
(***************************************************************************)
\* name and namespace in the wrong order
DnsForm_swapped(name, namespace, port) ==
    "http://" \o namespace \o "." \o name \o ".svc.cluster.local:" \o ToString(port)

DnsForm(name, namespace, port) ==
    "http://" \o name \o "." \o namespace \o ".svc.cluster.local:" \o ToString(port)

ProxyForm(host, name, namespace, port) ==
    host \o "/api/v1/namespaces/" \o namespace \o "/services/" \o name \o ":"
         \o ToString(port) \o "/proxy"

IngressForm(host) == "http://" \o host

(***************************************************************************)
(* The orchestration API as one call sees it: cluster.services[sel] is     *)
(* what list_service_for_all_namespaces(label_selector=sel) answers,       *)
(* cluster.ingresses[sel] what list_ingress_for_all_namespaces answers.    *)
(* A lookup returns [ret, calls]: its result and the list calls it issued. *)
(***************************************************************************)
ListServiceCall(label_selector) == [api |-> "list_service", selector |-> label_selector]

ListIngressCall(label_selector) == [api |-> "list_ingress", selector |-> label_selector]

\* an error of the list call caught and reported as no match
find_service_url_caught(label_selector, api_client, inside_cluster, cluster) ==
    LET svc_list == cluster.services[label_selector]
        calls == <<ListServiceCall(label_selector)>>
    IN  IF svc_list.err \/ svc_list.items = <<>> THEN [ret |-> None, calls |-> calls]
        ELSE LET svc == svc_list.items[1]
             IN  IF svc.ports = <<>> THEN [ret |-> Raise("TypeError"), calls |-> calls]
                 ELSE IF inside_cluster
                 THEN [ret |-> Str(DnsForm(svc.name, svc.namespace, svc.ports[1])),
                       calls |-> calls]
                 ELSE IF api_client.present
                 THEN [ret |-> Str(ProxyForm(api_client.host, svc.name, svc.namespace,
                                             svc.ports[1])),
                       calls |-> calls]
                 ELSE [ret |-> None, calls |-> calls]

\* the proxy form built without the test that a handle was given
find_service_url_unchecked(label_selector, api_client, inside_cluster, cluster) ==
    LET svc_list == cluster.services[label_selector]
        calls == <<ListServiceCall(label_selector)>>
    IN  IF svc_list.err THEN [ret |-> Raise("ApiException"), calls |-> calls]
        ELSE IF svc_list.items = <<>> THEN [ret |-> None, calls |-> calls]
        ELSE LET svc == svc_list.items[1]
             IN  IF svc.ports = <<>> THEN [ret |-> Raise("TypeError"), calls |-> calls]
                 ELSE IF inside_cluster
                 THEN [ret |-> Str(DnsForm(svc.name, svc.namespace, svc.ports[1])),
                       calls |-> calls]
                 ELSE [ret |-> Str(ProxyForm(api_client.host, svc.name, svc.namespace,
                                             svc.ports[1])),
                       calls |-> calls]

\* find_service_url (lines 19-40)
find_service_url(label_selector, api_client, inside_cluster, cluster) ==
    LET svc_list == cluster.services[label_selector]
        calls == <<ListServiceCall(label_selector)>>
    IN  IF svc_list.err THEN [ret |-> Raise("ApiException"), calls |-> calls]
        ELSE IF svc_list.items = <<>> THEN [ret |-> None, calls |-> calls]
        ELSE LET svc == svc_list.items[1]
             IN  \* svc.spec.ports[0] of a service without ports raises
                 IF svc.ports = <<>> THEN [ret |-> Raise("TypeError"), calls |-> calls]
                 ELSE IF inside_cluster
                 THEN [ret |-> Str(DnsForm(svc.name, svc.namespace, svc.ports[1])),
                       calls |-> calls]
                 ELSE IF api_client.present
                 THEN [ret |-> Str(ProxyForm(api_client.host, svc.name, svc.namespace,
                                             svc.ports[1])),
                       calls |-> calls]
                 ELSE [ret |-> None, calls |-> calls]

\* the in-cluster short-circuit of lines 46-47 left out
find_ingress_host_always(label_selector, api_client, inside_cluster, cluster) ==
    LET ingress_list == cluster.ingresses[label_selector]
        calls == <<ListIngressCall(label_selector)>>
    IN  IF ingress_list.err THEN [ret |-> Raise("ApiException"), calls |-> calls]
        ELSE IF ingress_list.items = <<>> THEN [ret |-> None, calls |-> calls]
        ELSE IF ingress_list.items[1].rules = <<>>
        THEN [ret |-> Raise("TypeError"), calls |-> calls]
        ELSE [ret |-> Str(IngressForm(ingress_list.items[1].rules[1])), calls |-> calls]

\* find_ingress_host (lines 42-56)
find_ingress_host(label_selector, api_client, inside_cluster, cluster) ==
    IF inside_cluster THEN [ret |-> None, calls |-> <<>>]
    ELSE LET ingress_list == cluster.ingresses[label_selector]
             calls == <<ListIngressCall(label_selector)>>
         IN  IF ingress_list.err THEN [ret |-> Raise("ApiException"), calls |-> calls]
             ELSE IF ingress_list.items = <<>> THEN [ret |-> None, calls |-> calls]
             ELSE LET ingress == ingress_list.items[1]
                  IN  \* ingress.spec.rules[0] of an ingress without rules raises
                      IF ingress.rules = <<>>
                      THEN [ret |-> Raise("TypeError"), calls |-> calls]
                      ELSE [ret |-> Str(IngressForm(ingress.rules[1])), calls |-> calls]

(***************************************************************************)
(* TTLCache(maxsize=1, ttl=SERVICE_CACHE_TTL_SEC) (line 17): a set of      *)
(* entries [key, value, expires]; an entry is live while time < expires.   *)
(***************************************************************************)
\* the bound of the comparison taken as inclusive
Live_inclusive(c, time) == {e \in c : time <= e.expires}

Live(c, time) == {e \in c : time < e.expires}

\* the expiry test inverted: only expired entries are served
CacheGet_inverted(c, key, time) ==
    IF \E e \in c \ Live(c, time) : e.key = key
    THEN Str((CHOOSE e \in c \ Live(c, time) : e.key = key).value)
    ELSE None

\* the key left out of the lookup: any live entry is served
CacheGet_anykey(c, key, time) ==
    IF Live(c, time) # {}
    THEN Str((CHOOSE e \in Live(c, time) : TRUE).value)
    ELSE None

\* cache.get(key): the value of a live entry, else None
CacheGet(c, key, time) ==
    IF \E e \in Live(c, time) : e.key = key
    THEN Str((CHOOSE e \in Live(c, time) : e.key = key).value)
    ELSE None

\* no entry discarded to make room
Evict_none(c) == c

\* popitem(): discards the entry that expires first
RECURSIVE Evict(_)
Evict(c) ==
    IF Cardinality(c) + 1 <= maxsize THEN c
    ELSE Evict(c \ {CHOOSE e \in c : \A o \in c : e.expires <= o.expires})

\* the store made without making room first
CacheSet_unbounded(c, key, value, time) ==
    {e \in Live(c, time) : e.key # key}
        \cup {[key |-> key, value |-> value, expires |-> time + SERVICE_CACHE_TTL_SEC]}

\* the store left out
CacheSet_dropped(c, key, value, time) == c

\* cache[key] = value: expire, make room, store with a fresh expiry
CacheSet(c, key, value, time) ==
    LET live == Live(c, time)
        others == {e \in live : e.key # key}
        kept == IF \E e \in live : e.key = key THEN others ELSE Evict(others)
    IN  kept \cup {[key |-> key, value |-> value,
                    expires |-> time + SERVICE_CACHE_TTL_SEC]}

(***************************************************************************)
(* find_url (lines 58-81).                                                 *)
(***************************************************************************)
\* ",".join(selectors)
RECURSIVE Join(_)
Join(selectors) ==
    IF selectors = <<>> THEN ""
    ELSE IF Len(selectors) = 1 THEN selectors[1]
    ELSE selectors[1] \o "," \o Join(Tail(selectors))

\* the for loop of lines 67-81 from selector number i on; calls is the log
\* of list calls issued so far in this invocation, stored tells whether
\* line 72 ran
RECURSIVE find_url_loop(_, _, _, _, _, _, _, _)
find_url_loop(selectors, i, api_client, inside_cluster, cluster, c, time, calls) ==
    IF i > Len(selectors)
    THEN [ret |-> None, cache |-> c, calls |-> calls, stored |-> FALSE]
    ELSE
      LET label_selector == selectors[i]
          \* line 69
          service == find_service_url(label_selector, api_client, inside_cluster,
                                      cluster)
          service_url == service.ret
          calls1 == calls \o service.calls
          \* line 76: the result is dropped
          dropped == find_ingress_host(label_selector, api_client, inside_cluster,
                                       cluster)
          calls2 == calls1 \o dropped.calls
          \* line 77
          ingress == find_ingress_host(label_selector, api_client, inside_cluster,
                                       cluster)
          ingress_url == ingress.ret
          calls3 == calls2 \o ingress.calls
      IN  IF service_url.kind = "raise"
          THEN [ret |-> service_url, cache |-> c, calls |-> calls1, stored |-> FALSE]
          ELSE IF Truthy(service_url)
          THEN [ret |-> service_url,
                cache |-> CacheSet(c, Join(selectors), service_url.v, time),
                calls |-> calls1, stored |-> TRUE]
          ELSE IF dropped.ret.kind = "raise"
          THEN [ret |-> dropped.ret, cache |-> c, calls |-> calls2, stored |-> FALSE]
          ELSE IF ingress_url.kind = "raise"
          THEN [ret |-> ingress_url, cache |-> c, calls |-> calls3, stored |-> FALSE]
          ELSE IF Truthy(ingress_url)
          THEN [ret |-> ingress_url, cache |-> c, calls |-> calls3, stored |-> FALSE]
          ELSE find_url_loop(selectors, i + 1, api_client, inside_cluster,
                             cluster, c, time, calls3)

\* a no-value result memoised as well
find_url_negative(selectors, api_client, inside_cluster, cluster, c, time) ==
    LET cache_key == Join(selectors)
        cached_value == CacheGet(c, cache_key, time)
        r == find_url_loop(selectors, 1, api_client, inside_cluster, cluster, c,
                           time, <<>>)
    IN  IF cached_value.kind = "str"
        THEN [ret |-> IF cached_value.v = "" THEN None ELSE cached_value,
              cache |-> c, calls |-> <<>>, hit |-> TRUE, stored |-> FALSE]
        ELSE [ret |-> r.ret,
              cache |-> IF r.ret = None THEN CacheSet(c, cache_key, "", time)
                        ELSE r.cache,
              calls |-> r.calls, hit |-> FALSE,
              stored |-> r.stored \/ r.ret = None]

\* every address found memoised, the ingress-derived ones too
find_url_memo_all(selectors, api_client, inside_cluster, cluster, c, time) ==
    LET cache_key == Join(selectors)
        cached_value == CacheGet(c, cache_key, time)
        r == find_url_loop(selectors, 1, api_client, inside_cluster, cluster, c,
                           time, <<>>)
    IN  IF Truthy(cached_value)
        THEN [ret |-> cached_value, cache |-> c, calls |-> <<>>, hit |-> TRUE,
              stored |-> FALSE]
        ELSE [ret |-> r.ret,
              cache |-> IF Truthy(r.ret) THEN CacheSet(c, cache_key, r.ret.v, time)
                        ELSE r.cache,
              calls |-> r.calls, hit |-> FALSE, stored |-> Truthy(r.ret)]

\* a hit that stores the entry again, as an access-refreshed cache would
find_url_touch(selectors, api_client, inside_cluster, cluster, c, time) ==
    LET cache_key == Join(selectors)
        cached_value == CacheGet(c, cache_key, time)
        r == find_url_loop(selectors, 1, api_client, inside_cluster, cluster, c,
                           time, <<>>)
    IN  IF Truthy(cached_value)
        THEN [ret |-> cached_value,
              cache |-> CacheSet(c, cache_key, cached_value.v, time),
              calls |-> <<>>, hit |-> TRUE, stored |-> FALSE]
        ELSE [ret |-> r.ret, cache |-> r.cache, calls |-> r.calls,
              hit |-> FALSE, stored |-> r.stored]

\* the handle's host and the mode made part of the cache key
find_url_keyed_by_handle(selectors, api_client, inside_cluster, cluster, c, time) ==
    LET cache_key == Join(selectors) \o "|" \o api_client.host \o "|"
                         \o ToString(inside_cluster)
        cached_value == CacheGet(c, cache_key, time)
        r == find_url_loop(selectors, 1, api_client, inside_cluster, cluster, c,
                           time, <<>>)
    IN  IF Truthy(cached_value)
        THEN [ret |-> cached_value, cache |-> c, calls |-> <<>>, hit |-> TRUE,
              stored |-> FALSE]
        ELSE [ret |-> r.ret,
              cache |-> IF r.stored THEN CacheSet(c, cache_key, r.ret.v, time) ELSE c,
              calls |-> r.calls, hit |-> FALSE, stored |-> r.stored]

find_url(selectors, api_client, inside_cluster, cluster, c, time) ==
    LET cache_key == Join(selectors)
        cached_value == CacheGet(c, cache_key, time)
    IN  IF Truthy(cached_value)
        THEN [ret |-> cached_value, cache |-> c, calls |-> <<>>, hit |-> TRUE,
              stored |-> FALSE]
        ELSE LET r == find_url_loop(selectors, 1, api_client, inside_cluster,
                                    cluster, c, time, <<>>)
             IN  [ret |-> r.ret, cache |-> r.cache, calls |-> r.calls,
                  hit |-> FALSE, stored |-> r.stored]

(***************************************************************************)
(* State.                                                                  *)
(***************************************************************************)
VARIABLES
    cache,      \* ServiceDiscovery.cache, shared by every instance
    now,        \* the cache's timer (time.monotonic), in seconds
    pc,         \* the caller: "idle" between calls, "returned" holding a result
    writer,     \* the selector list of the latest call that wrote the cache
    last,       \* the find_url call that just returned: inputs, result, list calls
    lookup,     \* one call of a lookup function on its own: inputs and results
    threads     \* find_url calls running concurrently: arguments, locals, position

vars == <<cache, now, pc, writer, last, lookup, threads>>

\* what the orchestration API answers for each selector during one call
ServiceResponses == {ApiOk(<<>>), ApiOk(<<Prom>>), ApiOk(<<Headless>>)}

IngressResponses == {ApiOk(<<>>), ApiOk(<<PromIngress>>)}

\* the handles find_url is called with
CallerClients == {NoClient, ApiClient("https://k8s-a")}

Clusters ==
    [services : [LabelSelectors -> ServiceResponses],
     ingresses : [LabelSelectors -> IngressResponses]]

EmptyCluster ==
    [services |-> [s \in LabelSelectors |-> ApiOk(<<>>)],
     ingresses |-> [s \in LabelSelectors |-> ApiOk(<<>>)]]

NoCall == [selectors |-> <<>>, api_client |-> NoClient, inside_cluster |-> FALSE,
           cluster |-> EmptyCluster, before |-> {}, writer |-> <<>>,
           ret |-> None, calls |-> <<>>, hit |-> FALSE, stored |-> FALSE]

Pending == [kind |-> "pending", v |-> ""]

NoLookup == [svc_list |-> ApiOk(<<>>), ingress_list |-> ApiOk(<<>>),
             api_client |-> NoClient, inside_cluster |-> FALSE,
             service_url |-> Pending, ingress_host |-> Pending, calls |-> <<>>]

\* the threads that call find_url concurrently
Threads == {1, 2}

\* a thread outside find_url
NoThread == [at |-> "idle", selectors |-> <<>>, api_client |-> NoClient,
             inside_cluster |-> FALSE, i |-> 0, cached_value |-> None,
             service_url |-> None, ingress_url |-> None, ret |-> None]

Init ==
    /\ cache = {}
    /\ now = 0
    /\ pc = "idle"
    /\ writer = <<>>
    /\ last = NoCall
    /\ lookup = NoLookup
    /\ threads = [t \in Threads |-> NoThread]

\* one call self.find_url(selectors, api_client=api_client) on an instance whose
\* config.inside_cluster is inside_cluster, against the cluster as it is then
FindUrl(selectors, api_client, inside_cluster, cluster) ==
    LET r == find_url(selectors, api_client, inside_cluster, cluster, cache, now)
    IN  /\ cache' = r.cache
        /\ pc' = "returned"
        /\ writer' = IF r.stored THEN selectors ELSE writer
        /\ last' = [selectors |-> selectors, api_client |-> api_client,
                    inside_cluster |-> inside_cluster, cluster |-> cluster,
                    before |-> cache, writer |-> writer,
                    ret |-> r.ret, calls |-> r.calls, hit |-> r.hit,
                    stored |-> r.stored]
        /\ UNCHANGED <<now, lookup, threads>>

\* the caller takes the result and goes on
Return ==
    /\ pc = "returned"
    /\ pc' = "idle"
    /\ last' = NoCall
    /\ UNCHANGED <<cache, now, writer, lookup, threads>>

\* time passes between calls
Tick ==
    /\ pc = "idle"
    /\ now + TickSec <= MaxTicks * TickSec
    /\ now' = now + TickSec
    /\ UNCHANGED <<cache, pc, writer, last, lookup, threads>>

\* the caller is single-threaded: the next call starts after the previous returned
Call ==
    /\ pc = "idle"
    /\ \E selectors \in SelectorLists, api_client \in CallerClients,
          inside_cluster \in BOOLEAN, cluster \in Clusters :
            FindUrl(selectors, api_client, inside_cluster, cluster)

Next ==
    \/ Call
    \/ Return
    \/ Tick

Spec == Init /\ [][Next]_vars

(***************************************************************************)
(* find_url called with every handle against an orchestration API whose    *)
(* list calls may raise, all within the lifetime of what the calls store.  *)
(***************************************************************************)
FailingServiceResponses == {ApiOk(<<>>), ApiOk(<<Prom>>), ApiError}

FailingIngressResponses == {ApiOk(<<>>), ApiOk(<<PromIngress>>), ApiError}

FailingClusters ==
    [services : [LabelSelectors -> FailingServiceResponses],
     ingresses : [LabelSelectors -> FailingIngressResponses]]

CallAny ==
    /\ pc = "idle"
    /\ \E selectors \in SelectorLists, api_client \in ApiClients,
          inside_cluster \in BOOLEAN, cluster \in FailingClusters :
            FindUrl(selectors, api_client, inside_cluster, cluster)

NextAny ==
    \/ CallAny
    \/ Return

SpecAny == Init /\ [][NextAny]_vars

(***************************************************************************)
(* The two lookups on their own: one selector, any answer of the list      *)
(* calls, every mode and handle.                                           *)
(***************************************************************************)
ServiceItems == SeqsUpTo({Prom, Thanos, Headless}, MaxItems)

IngressItems == SeqsUpTo({PromIngress, TwoRules, NoRules}, MaxItems)

\* the cluster in which SelA matches the services and ingresses of lookup
LookupCluster ==
    [services |-> [s \in LabelSelectors |-> lookup.svc_list],
     ingresses |-> [s \in LabelSelectors |-> lookup.ingress_list]]

InitLookup ==
    /\ cache = {}
    /\ now = 0
    /\ pc = "idle"
    /\ writer = <<>>
    /\ last = NoCall
    /\ lookup \in [svc_list : {ApiOk(items) : items \in ServiceItems},
                   ingress_list : {ApiOk(items) : items \in IngressItems},
                   api_client : ApiClients, inside_cluster : BOOLEAN,
                   service_url : {Pending}, ingress_host : {Pending},
                   calls : {<<>>}]
    /\ threads = [t \in Threads |-> NoThread]

\* self.find_service_url(SelA, api_client=api_client)
CallFindServiceUrl ==
    LET r == find_service_url(SelA, lookup.api_client, lookup.inside_cluster,
                              LookupCluster)
    IN  /\ lookup.service_url = Pending
        /\ lookup' = [lookup EXCEPT !.service_url = r.ret,
                                    !.calls = lookup.calls \o r.calls]
        /\ UNCHANGED <<cache, now, pc, writer, last, threads>>

\* self.find_ingress_host(SelA, api_client=api_client)
CallFindIngressHost ==
    LET r == find_ingress_host(SelA, lookup.api_client, lookup.inside_cluster,
                               LookupCluster)
    IN  /\ lookup.ingress_host = Pending
        /\ lookup' = [lookup EXCEPT !.ingress_host = r.ret,
                                    !.calls = lookup.calls \o r.calls]
        /\ UNCHANGED <<cache, now, pc, writer, last, threads>>

NextLookup ==
    \/ CallFindServiceUrl
    \/ CallFindIngressHost

SpecLookup == InitLookup /\ [][NextLookup]_vars

(***************************************************************************)
(* find_url run by two threads on the shared cache without a lock: one     *)
(* step per cache.get (line 63), per list call (lines 69, 76, 77) and per   *)
(* cache store (line 72); the steps of the threads interleave freely.      *)
(***************************************************************************)
\* what a list call answers to one thread at one step
AnswerOf(svc_list, ingress_list) ==
    [services |-> [s \in LabelSelectors |-> svc_list],
     ingresses |-> [s \in LabelSelectors |-> ingress_list]]

\* the selector lists the threads call find_url with: none, one and two
\* selectors, each list under a key of its own
ConcurrentLists == {<<>>, <<SelA>>, <<SelA, SelB>>}

\* thread t leaves find_url with result ret
Leave(t, ret) == [threads[t] EXCEPT !.at = "done", !.ret = ret]

\* line 58: thread t enters find_url
Enter(t) ==
    /\ threads[t].at = "idle"
    /\ \E selectors \in ConcurrentLists, api_client \in CallerClients,
          inside_cluster \in BOOLEAN :
            threads' = [threads EXCEPT ![t] =
                           [NoThread EXCEPT !.at = "get", !.selectors = selectors,
                                            !.api_client = api_client,
                                            !.inside_cluster = inside_cluster]]
    /\ UNCHANGED <<cache, now, pc, writer, last, lookup>>

\* lines 62-65: cache.get and the return of a hit; on a miss the loop starts
Get(t) ==
    LET th == threads[t]
        cached_value == CacheGet(cache, Join(th.selectors), now)
    IN  /\ th.at = "get"
        /\ threads' = [threads EXCEPT ![t] =
              IF Truthy(cached_value)
              THEN [Leave(t, cached_value) EXCEPT !.cached_value = cached_value]
              ELSE IF th.selectors = <<>> THEN Leave(t, None)
              ELSE [th EXCEPT !.at = "service", !.i = 1]]
        /\ UNCHANGED <<cache, now, pc, writer, last, lookup>>

\* line 69: the service lookup of selector number i
Service(t) ==
    LET th == threads[t]
    IN  /\ th.at = "service"
        /\ \E svc_list \in ServiceResponses :
              LET service_url ==
                      find_service_url(th.selectors[th.i], th.api_client,
                                       th.inside_cluster,
                                       AnswerOf(svc_list, ApiOk(<<>>))).ret
              IN  threads' = [threads EXCEPT ![t] =
                    IF service_url.kind = "raise" THEN Leave(t, service_url)
                    ELSE IF Truthy(service_url)
                    THEN [th EXCEPT !.at = "store", !.service_url = service_url]
                    ELSE [th EXCEPT !.at = "ingress", !.service_url = service_url]]
        /\ UNCHANGED <<cache, now, pc, writer, last, lookup>>

\* lines 72-73: the store and the return of the service address
Store(t) ==
    LET th == threads[t]
    IN  /\ th.at = "store"
        /\ cache' = CacheSet(cache, Join(th.selectors), th.service_url.v, now)
        /\ writer' = th.selectors
        /\ threads' = [threads EXCEPT ![t] = Leave(t, th.service_url)]
        /\ UNCHANGED <<now, pc, last, lookup>>

\* line 76: the ingress lookup whose result is dropped
Ingress(t) ==
    LET th == threads[t]
    IN  /\ th.at = "ingress"
        /\ \E ingress_list \in IngressResponses :
              LET dropped ==
                      find_ingress_host(th.selectors[th.i], th.api_client,
                                        th.inside_cluster,
                                        AnswerOf(ApiOk(<<>>), ingress_list)).ret
              IN  threads' = [threads EXCEPT ![t] =
                    IF dropped.kind = "raise" THEN Leave(t, dropped)
                    ELSE [th EXCEPT !.at = "ingress_again"]]
        /\ UNCHANGED <<cache, now, pc, writer, last, lookup>>

\* lines 77-79: the ingress lookup whose result is used; line 81 after the
\* last selector
IngressAgain(t) ==
    LET th == threads[t]
    IN  /\ th.at = "ingress_again"
        /\ \E ingress_list \in IngressResponses :
              LET ingress_url ==
                      find_ingress_host(th.selectors[th.i], th.api_client,
                                        th.inside_cluster,
                                        AnswerOf(ApiOk(<<>>), ingress_list)).ret
              IN  threads' = [threads EXCEPT ![t] =
                    IF ingress_url.kind = "raise" THEN Leave(t, ingress_url)
                    ELSE IF Truthy(ingress_url)
                    THEN [Leave(t, ingress_url) EXCEPT !.ingress_url = ingress_url]
                    ELSE IF th.i = Len(th.selectors) THEN Leave(t, None)
                    ELSE [th EXCEPT !.at = "service", !.i = th.i + 1,
                                    !.ingress_url = ingress_url]]
        /\ UNCHANGED <<cache, now, pc, writer, last, lookup>>

\* the caller of thread t takes the result
Done(t) ==
    /\ threads[t].at = "done"
    /\ threads' = [threads EXCEPT ![t] = NoThread]
    /\ UNCHANGED <<cache, now, pc, writer, last, lookup>>

NextConcurrent ==
    \/ \E t \in Threads : Enter(t)
    \/ \E t \in Threads : Get(t)
    \/ \E t \in Threads : Service(t)
    \/ \E t \in Threads : Store(t)
    \/ \E t \in Threads : Ingress(t)
    \/ \E t \in Threads : IngressAgain(t)
    \/ \E t \in Threads : Done(t)
    \/ Tick

SpecConcurrent == Init /\ [][NextConcurrent]_vars

(***************************************************************************)
(* Properties of find_url, stated on the call that just returned: last     *)
(* holds its inputs, last.before the cache it found, cache the cache it    *)
(* left, and now is the time of the call.                                  *)
(***************************************************************************)
Returned == pc = "returned"

CacheKey == Join(last.selectors)

\* the entries of the cache found by the call that are live under its key
LiveBefore == {e \in last.before : e.key = CacheKey /\ now < e.expires}

\* what the same call yields on a resolver whose cache is empty
Fresh ==
    find_url(last.selectors, last.api_client, last.inside_cluster, last.cluster,
             {}, now)

\* what the service lookup of the first selector yields in the call
FirstService ==
    find_service_url(last.selectors[1], last.api_client, last.inside_cluster,
                     last.cluster).ret

\* C1: when the cache holds a live entry under the key of the selector list,
\* find_url returns exactly the stored value and issues no service-list and no
\* ingress-list call.
C1_LiveEntryIsReturnedWithoutLookup ==
    Returned =>
        \A e \in LiveBefore : last.ret = Str(e.value) /\ last.calls = <<>>

\* a call on a non-empty selector list, some time after the entry was stored,
\* answered from the cache although the cluster would now answer otherwise
C1_Witness ==
    /\ Returned
    /\ last.selectors # <<>>
    /\ now > 0
    /\ \E e \in LiveBefore : last.ret = Str(e.value)
    /\ last.calls = <<>>
    /\ Fresh.ret # last.ret

\* C2: with no live cache entry under its key and a first selector whose
\* service lookup yields an address, find_url returns that address, stores it
\* under the key of the whole list with a lifetime of 900 seconds, and issues
\* exactly one list call: the service-list call of the first selector.
C2_FirstServiceMatchWins ==
    (Returned /\ last.selectors # <<>> /\ LiveBefore = {} /\ Truthy(FirstService)) =>
        /\ last.ret = FirstService
        /\ [key |-> CacheKey, value |-> FirstService.v, expires |-> now + 900] \in cache
        /\ last.calls = <<ListServiceCall(last.selectors[1])>>

\* two selectors, both with a service and an ingress: only the first service
\* lookup ran
C2_Witness ==
    /\ Returned
    /\ Len(last.selectors) = 2
    /\ last.selectors[1] # last.selectors[2]
    /\ ~last.inside_cluster
    /\ \A s \in LabelSelectors :
          /\ last.cluster.services[s] = ApiOk(<<Prom>>)
          /\ last.cluster.ingresses[s] = ApiOk(<<PromIngress>>)
    /\ LiveBefore = {}
    /\ last.ret = FirstService
    /\ Truthy(last.ret)
    /\ Len(last.calls) = 1
    /\ \E e \in cache : e.key = CacheKey

\* C4: once the lifetime of the entry stored under the key has elapsed,
\* find_url does not serve it: the call is a miss, issues the lookups and
\* returns what they yield then, as a resolver with an empty cache would; an
\* entry written by the call expires 900 seconds later.
C4_ExpiredEntryIsNotServed ==
    (Returned /\ \E e \in last.before : e.key = CacheKey /\ now >= e.expires) =>
        /\ ~last.hit
        /\ last.calls # <<>>
        /\ last.calls[1] = ListServiceCall(last.selectors[1])
        /\ last.ret = Fresh.ret
        /\ last.calls = Fresh.calls
        /\ cache # last.before => \A e \in cache : e.expires = now + 900

\* the entry expired and the lookups now yield something else than it held
C4_Witness ==
    /\ Returned
    /\ \E e \in last.before :
          e.key = CacheKey /\ now >= e.expires /\ last.ret # Str(e.value)
    /\ ~last.hit
    /\ Truthy(last.ret)

\* the find_url call issued on selector list S right after the call returned
Subsequent(S) ==
    find_url(S, last.api_client, last.inside_cluster, last.cluster, cache, now)

\* the last list call of the call
LastCall == last.calls[Len(last.calls)]

\* the call returned an address it took from the cache or from a service lookup
ServiceDerived ==
    /\ Truthy(last.ret)
    /\ last.hit \/ (last.calls # <<>> /\ LastCall.api = "list_service")

\* the call returned an address it took from an ingress lookup
IngressDerived ==
    /\ Truthy(last.ret)
    /\ ~last.hit
    /\ last.calls # <<>>
    /\ LastCall.api = "list_ingress"

\* the entries the call found live under another key than its own
LiveOthersBefore == {e \in last.before : e.key # CacheKey /\ now < e.expires}

\* every service-form and every ingress-form address of the resources used
ServiceAddresses ==
    {DnsForm(svc.name, svc.namespace, svc.ports[1]) : svc \in {Prom, Thanos}}
    \cup {ProxyForm(h, svc.name, svc.namespace, svc.ports[1]) :
            h \in Hosts, svc \in {Prom, Thanos}}

IngressAddresses == {IngressForm(h) : h \in {"prom.example.com", "thanos.example.com"}}

\* the addresses that can be built from the resources matching a selector in
\* the call: from any port of a matching service, any rule of a matching ingress
AddressesOf(label_selector) ==
    LET services == last.cluster.services[label_selector].items
        ingresses == last.cluster.ingresses[label_selector].items
        OfService(svc) ==
            UNION {{DnsForm(svc.name, svc.namespace, svc.ports[k]),
                    ProxyForm(last.api_client.host, svc.name, svc.namespace,
                              svc.ports[k])} : k \in DOMAIN svc.ports}
        OfIngress(ingress) ==
            {IngressForm(ingress.rules[k]) : k \in DOMAIN ingress.rules}
    IN  (UNION {OfService(services[i]) : i \in DOMAIN services})
        \cup (UNION {OfIngress(ingresses[i]) : i \in DOMAIN ingresses})

\* no selector of the call matches a service or an ingress
NoMatch ==
    \A i \in DOMAIN last.selectors :
        /\ last.cluster.services[last.selectors[i]].items = <<>>
        /\ last.cluster.ingresses[last.selectors[i]].items = <<>>

\* C5 as stated: after A was resolved and stored, resolving B of another key
\* makes a following find_url(A), within the lifetime of A's entry, miss.
C5_ResolvingAnotherKeyEvicts ==
    (Returned /\ Truthy(last.ret)) =>
        \A A \in SelectorLists :
            ( /\ Join(A) # CacheKey
              /\ last.writer = A
              /\ \E e \in last.before : e.key = Join(A) /\ now < e.expires )
            => ~Subsequent(A).hit

\* C5 amended: when the call on B returns a service-derived address (one it
\* stored, or one it found cached), no live entry of another key is left in
\* the cache, and a following find_url on the list A that wrote the entry the
\* call found, A of another key than B, misses and issues the lookups again.
C5_ServiceResolutionEvicts ==
    (Returned /\ ServiceDerived) =>
        /\ \A e \in cache : now < e.expires => e.key = CacheKey
        /\ (last.writer # <<>> /\ Join(last.writer) # CacheKey) =>
              LET A == last.writer
                  r == Subsequent(A)
              IN  /\ ~r.hit
                  /\ r.calls # <<>>
                  /\ r.calls[1] = ListServiceCall(A[1])

\* A's entry was live when B was resolved from a service; A now misses
C5_Witness ==
    /\ Returned
    /\ last.stored
    /\ \E e \in LiveOthersBefore : e.key = Join(last.writer)
    /\ Join(writer) = CacheKey
    /\ ~Subsequent(last.writer).hit
    /\ Subsequent(last.writer).calls # <<>>

\* C6 as stated: every address returned is derived from a resource matching
\* one of the selectors of the call, and when no selector matches a service
\* or an ingress the result is no value.
C6_AddressOnlyFromMatch ==
    Returned =>
        /\ last.ret.kind = "str" =>
              \E i \in DOMAIN last.selectors : last.ret.v \in AddressesOf(last.selectors[i])
        /\ NoMatch => last.ret = None

\* C6 amended: an address returned on a cache miss is derived from a resource
\* matching one of the selectors of the call; an address returned on a hit is
\* the live entry under the key of the list, a service-form address stored by
\* an earlier call whose list has the same key; on a miss with no selector
\* matching anything the result is no value.
C6_AddressFromMatchOrLiveEntry ==
    Returned =>
        /\ (last.ret.kind = "str" /\ LiveBefore = {}) =>
              \E i \in DOMAIN last.selectors : last.ret.v \in AddressesOf(last.selectors[i])
        /\ (last.ret.kind = "str" /\ LiveBefore # {}) =>
              /\ \E e \in LiveBefore : last.ret = Str(e.value)
              /\ last.ret.v \in ServiceAddresses
              /\ Join(last.writer) = CacheKey
        /\ (NoMatch /\ LiveBefore = {}) => last.ret = None

\* a miss on two selectors of which only the second matches, while the cache
\* holds a live entry of another key
C6_Witness ==
    /\ Returned
    /\ Len(last.selectors) = 2
    /\ LiveBefore = {}
    /\ LiveOthersBefore # {}
    /\ last.cluster.services[last.selectors[1]].items = <<>>
    /\ last.cluster.ingresses[last.selectors[1]].items = <<>>
    /\ Truthy(last.ret)
    /\ last.ret.v \in AddressesOf(last.selectors[2])

\* the cluster in which every selector matches the services of one answer and
\* no ingress
ClusterWith(svc_list) ==
    [services |-> [s \in LabelSelectors |-> svc_list],
     ingresses |-> [s \in LabelSelectors |-> ApiOk(<<>>)]]

\* C7: a find_url call that ends with no value leaves the cache as it found
\* it; the next call on the same list is a miss that issues the lookups again
\* and returns the service address of the first selector once there is one.
C7_NoValueLeavesCacheAlone ==
    (Returned /\ last.ret = None) =>
        /\ cache = last.before
        /\ \A svc_list \in ServiceResponses :
              LET cl == ClusterWith(svc_list)
                  r == find_url(last.selectors, last.api_client, last.inside_cluster,
                                cl, cache, now)
                  first == find_service_url(last.selectors[1], last.api_client,
                                            last.inside_cluster, cl).ret
              IN  /\ ~r.hit
                  /\ last.selectors # <<>> =>
                        /\ r.calls # <<>>
                        /\ r.calls[1] = ListServiceCall(last.selectors[1])
                        /\ Truthy(first) => r.ret = first

\* no value for a non-empty list while the cache holds an entry
C7_Witness ==
    /\ Returned
    /\ last.ret = None
    /\ last.selectors # <<>>
    /\ last.calls # <<>>
    /\ last.before # {}
    /\ cache = last.before
    /\ Truthy(find_url(last.selectors, last.api_client, last.inside_cluster,
                       ClusterWith(ApiOk(<<Prom>>)), cache, now).ret)

\* C8: a find_url call that returns an ingress-derived address leaves the
\* cache as it found it, so the same call issued again misses and repeats the
\* lookups; the cache changes only by a service-derived address being stored
\* under the key of the call, and holds service-form addresses only.
C8_IngressResultNotCached ==
    Returned =>
        /\ IngressDerived =>
              /\ cache = last.before
              /\ ~Subsequent(last.selectors).hit
              /\ Subsequent(last.selectors).calls = last.calls
              /\ Subsequent(last.selectors).ret = last.ret
        /\ cache # last.before =>
              /\ last.calls # <<>>
              /\ LastCall.api = "list_service"
              /\ [key |-> CacheKey, value |-> last.ret.v, expires |-> now + 900] \in cache
        /\ \A e \in cache : e.value \in ServiceAddresses /\ e.value \notin IngressAddresses

\* an ingress-derived address returned while another key's entry is live
C8_Witness ==
    /\ Returned
    /\ IngressDerived
    /\ last.ret.v \in IngressAddresses
    /\ LiveOthersBefore # {}
    /\ cache = last.before

\* C9: in in-cluster mode find_ingress_host yields no value for every selector
\* whatever ingresses exist and issues no ingress-list call, and find_url
\* never returns an ingress-form address.
C9_InClusterNoIngress ==
    (Returned /\ last.inside_cluster) =>
        /\ \A i \in DOMAIN last.calls : last.calls[i].api # "list_ingress"
        /\ \A s \in LabelSelectors :
              find_ingress_host(s, last.api_client, TRUE, last.cluster)
                  = [ret |-> None, calls |-> <<>>]
        /\ last.ret.kind = "str" => last.ret.v \notin IngressAddresses

\* in-cluster, every selector matches an ingress and no service: no value
C9_Witness ==
    /\ Returned
    /\ last.inside_cluster
    /\ Len(last.selectors) = 2
    /\ \A s \in LabelSelectors :
          /\ last.cluster.services[s] = ApiOk(<<>>)
          /\ last.cluster.ingresses[s] = ApiOk(<<PromIngress>>)
    /\ ~last.hit
    /\ last.ret = None
    /\ Len(last.calls) = 2

\* B is made of the selectors of A in another order
Reordered(A, B) ==
    /\ A # B
    /\ Len(A) = Len(B)
    /\ \A x \in LabelSelectors :
          Cardinality({i \in DOMAIN A : A[i] = x}) = Cardinality({i \in DOMAIN B : B[i] = x})

\* C12: two selector lists made of the same selectors in a different order
\* have distinct cache keys, and find_url on one of them never returns, as a
\* cache hit, the value that find_url on the other one stored.
C12_ReorderedListsAreDistinctEntries ==
    (Returned /\ Reordered(last.selectors, last.writer)) =>
        /\ Join(last.writer) # CacheKey
        /\ ~last.hit

\* no selector occurs twice in the list of the call
DistinctSelectors ==
    \A i, j \in DOMAIN last.selectors : last.selectors[i] = last.selectors[j] => i = j

\* C13: within one find_url call on a list of distinct selectors the
\* orchestration API receives, for every selector, at most one service-list
\* call and at most one ingress-list call, in both deployment modes.
C13_OneCallPerSelectorAndKind ==
    (Returned /\ DistinctSelectors) =>
        \A i, j \in DOMAIN last.calls : last.calls[i] = last.calls[j] => i = j

\* service(s1), ingress(s1), service(s2), ingress(s2), ... as list calls; in
\* in-cluster mode an ingress lookup issues no list call
RECURSIVE LookupOrder(_, _)
LookupOrder(selectors, inside_cluster) ==
    IF selectors = <<>> THEN <<>>
    ELSE (IF inside_cluster THEN <<ListServiceCall(selectors[1])>>
          ELSE <<ListServiceCall(selectors[1]), ListIngressCall(selectors[1])>>)
         \o LookupOrder(Tail(selectors), inside_cluster)

IsPrefix(p, q) == Len(p) <= Len(q) /\ SubSeq(q, 1, Len(p)) = p

\* the first address in the order service(s1), ingress(s1), service(s2), ...
RECURSIVE FirstAddress(_)
FirstAddress(selectors) ==
    IF selectors = <<>> THEN None
    ELSE LET service_url == find_service_url(selectors[1], last.api_client,
                                             last.inside_cluster, last.cluster).ret
             ingress_url == find_ingress_host(selectors[1], last.api_client,
                                              last.inside_cluster, last.cluster).ret
         IN  IF Truthy(service_url) THEN service_url
             ELSE IF Truthy(ingress_url) THEN ingress_url
             ELSE FirstAddress(Tail(selectors))

\* C14: on a cache miss the list calls of one find_url call are a prefix of
\* service(s1), ingress(s1), service(s2), ingress(s2), ..., the ingress call
\* of a selector follows its service call, and a call that ends without an
\* error returns the first address in that order.
C14_LookupsInInputOrder ==
    (Returned /\ ~last.hit) =>
        /\ IsPrefix(last.calls, LookupOrder(last.selectors, last.inside_cluster))
        /\ last.ret.kind # "raise" => last.ret = FirstAddress(last.selectors)

\* C15: an entry lives 900 seconds from its insertion whatever the accesses:
\* a hit leaves the cache, the expiry included, as it was; find_url stores
\* only when no entry is live under its key, so what it stores expires 900
\* seconds after the store and the expiry of a live entry is never reset; an
\* entry is never served at or after its expiry.
C15_ExpiryFixedAtInsertion ==
    Returned =>
        /\ last.hit =>
              /\ cache = last.before
              /\ \E e \in cache : e.key = CacheKey /\ now < e.expires
        /\ last.stored => LiveBefore = {}
        /\ \A f \in cache : f \in last.before \/ f.expires = now + 900
        /\ \A e \in last.before :
              /\ (e.key = CacheKey /\ now >= e.expires) => ~last.hit
              /\ now < e.expires => \A f \in cache : f.key = e.key => f = e

\* a hit 450 seconds after the insertion: the entry still expires at 900
C15_Witness ==
    /\ Returned
    /\ last.hit
    /\ now = TickSec
    /\ \E e \in cache : e.key = CacheKey /\ last.ret = Str(e.value) /\ e.expires = 900
    /\ cache = last.before

\* C16: after any sequence of find_url calls the cache holds at most one
\* entry; its key is the key of the latest call that stored the address of a
\* service lookup, and its value is a non-empty service-form address.
C16_SingleEntryOfLatestWriter ==
    /\ Cardinality(cache) <= 1
    /\ \A e \in cache :
          /\ e.key = Join(writer)
          /\ e.value # ""
          /\ e.value \in ServiceAddresses
          /\ e.value \notin IngressAddresses
    /\ writer # <<>> => cache # {}
    /\ (Returned /\ last.stored) =>
          cache = {[key |-> CacheKey, value |-> last.ret.v, expires |-> now + 900]}

\* a call stores a proxy-form address while the entry of another key, written
\* by an earlier call, is still live
C16_Witness ==
    /\ Returned
    /\ last.stored
    /\ \E e \in LiveOthersBefore : e.key = Join(last.writer)
    /\ writer = last.selectors
    /\ Cardinality(cache) = 1
    /\ \E e \in cache : e.value = ProxyForm("https://k8s-a", "prom", "monitoring", 9090)

\* the call was made out of cluster without an API handle
NoHandleOutside == ~last.inside_cluster /\ ~last.api_client.present

\* the cluster of the call with every service taken away
WithoutServices ==
    [last.cluster EXCEPT !.services = [s \in LabelSelectors |-> ApiOk(<<>>)]]

\* every first service matching a selector of the call declares a port
FirstServicesHavePorts ==
    \A i \in DOMAIN last.selectors :
        LET items == last.cluster.services[last.selectors[i]].items
        IN  items # <<>> => items[1].ports # <<>>

C3_ServiceAddressForm ==
    lookup.service_url # Pending =>
        LET items == lookup.svc_list.items
            n == items[1].name
            ns == items[1].namespace
            p == ToString(items[1].ports[1])
        IN  IF items = <<>> THEN lookup.service_url = None
            ELSE IF items[1].ports = <<>> THEN TRUE
            ELSE IF lookup.inside_cluster
            THEN /\ lookup.service_url =
                       Str("http://" \o n \o "." \o ns \o ".svc.cluster.local:" \o p)
                 /\ items[1] = Prom =>
                       lookup.service_url.v = "http://prom.monitoring.svc.cluster.local:9090"
            ELSE IF lookup.api_client.present
            THEN /\ lookup.service_url =
                       Str(lookup.api_client.host \o "/api/v1/namespaces/" \o ns
                           \o "/services/" \o n \o ":" \o p \o "/proxy")
                 /\ (items[1] = Prom /\ lookup.api_client.host = "https://k8s-a") =>
                       lookup.service_url.v =
                         "https://k8s-a/api/v1/namespaces/monitoring/services/prom:9090/proxy"
            ELSE lookup.service_url = None

\* a first service with two ports followed by another service, in-cluster
C3_Witness ==
    /\ lookup.svc_list.items = <<Thanos, Prom>>
    /\ lookup.inside_cluster
    /\ lookup.service_url = Str("http://thanos.obs.svc.cluster.local:10902")


\* C10: a first matched service without ports, and out of cluster a first
\* matched ingress without rules, give no value and never an error.
C10_UnaddressableMatchIsNoValue ==
    /\ ( /\ lookup.service_url # Pending
         /\ lookup.svc_list.items # <<>>
         /\ lookup.svc_list.items[1].ports = <<>> )
       => lookup.service_url = None
    /\ ( /\ lookup.ingress_host # Pending
         /\ ~lookup.inside_cluster
         /\ lookup.ingress_list.items # <<>>
         /\ lookup.ingress_list.items[1].rules = <<>> )
       => lookup.ingress_host = None

(***************************************************************************)
(* Properties of find_url when list calls may raise and the handle varies. *)
(***************************************************************************)
\* what the orchestration API answered to a list call of the call
Answer(call) ==
    IF call.api = "list_service" THEN last.cluster.services[call.selector]
    ELSE last.cluster.ingresses[call.selector]

\* C11: when a service-list or ingress-list call raises during find_url, the
\* call ends with that error, the failing list call is the last one of the
\* call, and the cache is left as the call found it; find_url ends with an
\* error of the orchestration API only when a list call of it raised.
C11_ListErrorPropagates ==
    Returned =>
        /\ \A i \in DOMAIN last.calls :
              Answer(last.calls[i]).err =>
                  /\ i = Len(last.calls)
                  /\ last.ret = Raise("ApiException")
                  /\ cache = last.before
        /\ last.ret = Raise("ApiException") =>
              /\ last.calls # <<>>
              /\ Answer(LastCall).err
        /\ ( /\ ~last.hit
             /\ last.selectors # <<>>
             /\ last.cluster.services[last.selectors[1]].err )
           => /\ last.ret = Raise("ApiException")
              /\ last.calls = <<ListServiceCall(last.selectors[1])>>

\* the ingress-list call of the first selector raises while the second
\* selector matches a service and the cache holds an entry
C11_Witness ==
    /\ Returned
    /\ Len(last.selectors) = 2
    /\ last.selectors[1] # last.selectors[2]
    /\ last.before # {}
    /\ last.cluster.services[last.selectors[1]] = ApiOk(<<>>)
    /\ last.cluster.ingresses[last.selectors[1]] = ApiError
    /\ last.cluster.services[last.selectors[2]] = ApiOk(<<Prom>>)
    /\ last.ret = Raise("ApiException")
    /\ last.calls = <<ListServiceCall(last.selectors[1]),
                      ListIngressCall(last.selectors[1])>>
    /\ cache = last.before

\* C18: the cache key depends on the selector list only: the entry a call
\* stored is returned unchanged, without any list call, by a following call on
\* the same list with any handle or none and in either mode; every hit
\* returns the live entry whatever the handle and mode of the call.
C18_KeyIgnoresHandleAndMode ==
    Returned =>
        /\ last.stored =>
              \A h2 \in ApiClients, mode \in BOOLEAN :
                  LET r == find_url(last.selectors, h2, mode, last.cluster, cache, now)
                  IN  /\ r.hit
                      /\ r.ret = last.ret
                      /\ r.calls = <<>>
                      /\ r.cache = cache
        /\ last.hit =>
              /\ \E e \in LiveBefore : last.ret = Str(e.value)
              /\ last.calls = <<>>
              /\ cache = last.before

\* a call with the handle of host k8s-b is answered with the proxy-form
\* address of host k8s-a, although its own lookup would yield another address
C18_Witness ==
    /\ Returned
    /\ last.hit
    /\ ~last.inside_cluster
    /\ last.api_client = ApiClient("https://k8s-b")
    /\ last.ret = Str(ProxyForm("https://k8s-a", "prom", "monitoring", 9090))
    /\ Fresh.ret = Str(ProxyForm("https://k8s-b", "prom", "monitoring", 9090))

(***************************************************************************)
(* Properties of find_url calls running concurrently.                      *)
(***************************************************************************)
\* the addresses a service lookup of thread t's call can yield
OwnServiceResults(t) ==
    {find_service_url(s, threads[t].api_client, threads[t].inside_cluster,
                      AnswerOf(svc_list, ApiOk(<<>>))).ret :
        s \in LabelSelectors, svc_list \in ServiceResponses}

\* at most one entry is cached; a thread about to store holds the address of
\* a service lookup of its own; a thread that returned holds a value it read
\* from the cache, or the result of a lookup of its own, or no value
ConcurrentState ==
    /\ Cardinality(cache) <= 1
    /\ \A t \in Threads :
          LET th == threads[t]
          IN  /\ th.at = "store" =>
                    /\ Truthy(th.service_url)
                    /\ th.cached_value = None
                    /\ th.service_url \in OwnServiceResults(t)
              /\ th.at = "done" =>
                    \/ Truthy(th.cached_value) /\ th.ret = th.cached_value
                    \/ /\ th.cached_value = None
                       /\ \/ th.ret = None
                          \/ th.ret.kind = "raise"
                          \/ th.ret = th.service_url /\ th.ret \in OwnServiceResults(t)
                          \/ th.ret = th.ingress_url /\ th.ret.v \in IngressAddresses

\* the cache changes only by a thread storing, under the key of its own list,
\* the address its own service lookup yielded; a thread that returns from the
\* cache read returns a live entry under the key of its own list
ConcurrentStep ==
    /\ cache' # cache =>
          \E t \in Threads :
              /\ threads[t].at = "store"
              /\ threads'[t].at = "done"
              /\ threads'[t].ret = threads[t].service_url
              /\ cache' = {[key |-> Join(threads[t].selectors),
                            value |-> threads[t].service_url.v,
                            expires |-> now + 900]}
    /\ \A t \in Threads :
          (threads[t].at = "get" /\ threads'[t].at = "done"
             /\ threads'[t].selectors # <<>>) =>
              \E e \in cache :
                  /\ e.key = Join(threads[t].selectors)
                  /\ now < e.expires
                  /\ threads'[t].ret = Str(e.value)

\* C19: two find_url calls interleaving freely on the shared cache, each
\* cache get and each cache set one atomic step: the cache never holds more
\* than one entry, every cached value is the address that a service lookup of
\* the storing call yielded, stored under that call's own key, and each call
\* returns a value it read from the cache under its own key or the result of
\* its own lookups.
C19_ConcurrentCallsKeepCacheSound ==
    /\ []ConcurrentState
    /\ [][ConcurrentStep]_vars

\* both threads called find_url on the same list at the same time, both
\* missed, both looked up and stored: with another handle the second store
\* replaced the address of the first
C19_Witness ==
    /\ now = 0
    /\ \A t \in Threads :
          /\ threads[t].at = "done"
          /\ threads[t].cached_value = None
          /\ Truthy(threads[t].service_url)
          /\ threads[t].ret = threads[t].service_url
    /\ threads[1].selectors = threads[2].selectors
    /\ threads[1].ret # threads[2].ret
    /\ Cardinality(cache) = 1

====
